---------------------------- MODULE Spec2Model ----------------------------
(***************************************************************************)
(* State-machine model of the multi-source RAG index manager               *)
(* (MultiSourceRagSystem, src/old/multi_source_rag.py) and of the          *)
(* reranking searcher built on it (MultiSourceReRankingRAG,                *)
(* src/src/rag/models/multi_source_reranking.py), of the single-file       *)
(* loader PDFRagSystem (src/src/rag/loaders/pdf.py) and of the chat window  *)
(* RAGTerminalUI that loads files into it (src/src/ui).                    *)
(*                                                                         *)
(* A text is kept run-length encoded: a sequence of runs [ch, n], n >= 1,  *)
(* adjacent runs having different characters.  Its Python length is the    *)
(* sum of the run lengths.                                                 *)
(***************************************************************************)
EXTENDS Integers, Sequences, FiniteSets, TLC

VARIABLES
    docs,         \* MultiSourceRagSystem.docs: the chunk store
    sources,      \* MultiSourceRagSystem.sources
    bm25,         \* MultiSourceRagSystem.bm25 (lexical index) or None
    vectorstore,  \* MultiSourceRagSystem.vectorstore (semantic index) or None
    persisted,    \* contents of the directory persist_dir, None when absent
    rr,           \* the MultiSourceReRankingRAG object in use, or None
    ret,          \* outcome of the last call: operation, status, value
    fresh,        \* history: a build_index succeeded and no add_*/remove since
    nextId,       \* history: number of sources registered so far
    pdf_rag_system, \* the PDFRagSystem object in use, or None
    call,         \* history: arguments of the last search or import, and what it met
    ui            \* the RAGTerminalUI window, or None

vars == <<docs, sources, bm25, vectorstore, persisted, rr, ret, fresh, nextId,
          pdf_rag_system, call, ui>>

\* Python's None where an object is expected, and where a string is expected.
None == [none |-> TRUE]

NoName == "None"

-----------------------------------------------------------------------------
(* Bounds of the model *)

MaxSources == 2

\* Sources registered over a whole run, removed ones included.
MaxAdds == MaxSources + 1

\* Runs of a text given to clean_text, and characters of one run.
MaxRuns == 4

MaxRunLength == 4

\* Messages the chat display holds, and characters the input field holds.
MaxMessages == 3

MaxInput == 3

-----------------------------------------------------------------------------
(* Program constants *)

MinChunkLength == 120

RetrieverK == 60

RrfC == 60

\* min_chunk_length the window gives every PDFRagSystem it makes.
UiMinChunkLength == 300

-----------------------------------------------------------------------------
(* Texts *)

Run(c, k) == [ch |-> c, n |-> k]

RECURSIVE TextLen(_)
TextLen(t) == IF t = <<>> THEN 0 ELSE Head(t).n + TextLen(Tail(t))

IsSpace(c) == c \in {" ", "\n"}

\* re.sub(r"\n{3,}", "\n\n", text)
CollapseNewlines(t) ==
    [i \in DOMAIN t |->
        IF t[i].ch = "\n" /\ t[i].n >= 3 THEN Run("\n", 2) ELSE t[i]]

RECURSIVE LStrip(_)
LStrip(t) ==
    IF t = <<>> THEN <<>>
    ELSE IF IsSpace(Head(t).ch) THEN LStrip(Tail(t)) ELSE t

RECURSIVE RStrip(_)
RStrip(t) ==
    IF t = <<>> THEN <<>>
    ELSE IF IsSpace(t[Len(t)].ch) THEN RStrip(SubSeq(t, 1, Len(t) - 1)) ELSE t

\* str.strip()
Strip(t) == RStrip(LStrip(t))

\* Faulty variant: a long run of newlines is cut down to one newline.
clean_text_single(t) ==
    Strip([i \in DOMAIN t |->
              IF t[i].ch = "\n" /\ t[i].n >= 3 THEN Run("\n", 1) ELSE t[i]])

clean_text(t) == Strip(CollapseNewlines(t))

-----------------------------------------------------------------------------
(* Inputs *)

\* 60 letters, three newlines, 60 letters: 123 characters, 122 once cleaned.
KeptText == <<Run("a", 60), Run("\n", 3), Run("a", 60)>>

\* one blank and 120 letters: 121 characters, 120 once cleaned.
ShortText == <<Run(" ", 1), Run("a", 120)>>

\* 121 letters, kept as they are.
OtherText == <<Run("b", 121)>>

\* What the splitter returns for one document: pieces with their page.
Piece(p, t) == [page |-> p, page_content |-> t]

TextSplits ==
    { <<Piece(0, ShortText)>>,
      <<Piece(0, ShortText), Piece(0, KeptText), Piece(0, OtherText)>> }

PdfSplits ==
    { <<Piece(0, ShortText)>>,
      <<Piece(0, ShortText), Piece(0, KeptText), Piece(1, OtherText)>> }

Names == {"n1", "n2"}

Path == [dir |-> "d", base |-> "n1"]

basename(path) == path.base

\* A text file as the two open() calls see it: one that cannot be opened, and
\* those that can, decodable or not in each encoding.
Files ==
    {[readable |-> FALSE, utf8 |-> FALSE, shift_jis |-> FALSE]}
        \cup [readable : {TRUE}, utf8 : BOOLEAN, shift_jis : BOOLEAN]

-----------------------------------------------------------------------------
(* Chunk store *)

ChunkId(page, idx) == <<"chunk", page, idx>>

\* One pass of "for idx, c in enumerate(chunks)": the chunks appended to docs.
RECURSIVE Retained(_, _, _, _, _)
Retained(chunks, idx, type, name, owner) ==
    IF chunks = <<>> THEN <<>>
    ELSE LET c    == Head(chunks)
             text == clean_text(c.page_content)
             rest == Retained(Tail(chunks), idx + 1, type, name, owner)
         IN  IF text # <<>> /\ TextLen(text) > MinChunkLength
             THEN <<[page_content |-> text,
                     page         |-> c.page,
                     chunk_id     |-> ChunkId(c.page, idx),
                     source_type  |-> type,
                     source_name  |-> name,
                     owner        |-> owner]>> \o rest
             ELSE rest

Source(type, name, path, owner) ==
    [type |-> type, name |-> name, path |-> path, owner |-> owner]

Ret(op, status) == [op |-> op, status |-> status, value |-> <<>>]

CanAdd == Len(sources) < MaxSources /\ nextId < MaxAdds

\* Faulty variant: an add_* call indexes the chunk store it has just extended.
Ingest_rebuilds(op, chunks, type, name, path) ==
    /\ docs' = docs \o Retained(chunks, 0, type, name, nextId)
    /\ sources' = Append(sources, Source(type, name, path, nextId))
    /\ nextId' = nextId + 1
    /\ fresh' = FALSE
    /\ bm25' = [docs |-> docs']
    /\ vectorstore' = [docs |-> docs']
    /\ ret' = Ret(op, "ok")
    /\ UNCHANGED <<persisted, rr, pdf_rag_system, call, ui>>

\* The part every add_* shares: append the retained chunks, record the source.
Ingest(op, chunks, type, name, path) ==
    /\ docs' = docs \o Retained(chunks, 0, type, name, nextId)
    /\ sources' = Append(sources, Source(type, name, path, nextId))
    /\ nextId' = nextId + 1
    /\ fresh' = FALSE
    /\ ret' = Ret(op, "ok")
    /\ UNCHANGED <<bm25, vectorstore, persisted, rr, pdf_rag_system, call, ui>>

Fail(op, status) ==
    /\ ret' = Ret(op, status)
    /\ UNCHANGED <<docs, sources, bm25, vectorstore, persisted, rr, fresh, nextId,
                   pdf_rag_system, call, ui>>

add_pdf(loads, chunks, source_name) ==
    /\ CanAdd
    /\ LET name == IF source_name = NoName THEN basename(Path) ELSE source_name
       IN  IF ~loads
           THEN Fail("add_pdf", "LoaderError")
           ELSE Ingest("add_pdf", chunks, "pdf", name, Path)

\* Faulty variant: Shift_JIS is tried after any failure of the first open.
Read_after_any_error(file) ==
    IF file.readable /\ file.utf8
    THEN <<[encoding |-> "utf-8", outcome |-> "ok"]>>
    ELSE <<[encoding |-> "utf-8",
            outcome  |-> IF file.readable THEN "UnicodeDecodeError" ELSE "OSError"],
           [encoding |-> "shift_jis",
            outcome  |-> IF ~file.readable THEN "OSError"
                         ELSE IF file.shift_jis THEN "ok" ELSE "UnicodeDecodeError"]>>

\* "try: open(encoding='utf-8') ... except UnicodeDecodeError:
\* open(encoding='shift_jis')": the opens made, in order, each with its outcome.
Read(file) ==
    IF ~file.readable
    THEN <<[encoding |-> "utf-8", outcome |-> "OSError"]>>
    ELSE IF file.utf8
    THEN <<[encoding |-> "utf-8", outcome |-> "ok"]>>
    ELSE <<[encoding |-> "utf-8", outcome |-> "UnicodeDecodeError"],
           [encoding |-> "shift_jis",
            outcome  |-> IF file.shift_jis THEN "ok" ELSE "UnicodeDecodeError"]>>

\* The outcome of the last open made.
ReadStatus(file) == Read(file)[Len(Read(file))].outcome

add_text_file(file, chunks, source_name) ==
    /\ CanAdd
    /\ LET name == IF source_name = NoName THEN basename(Path) ELSE source_name
       IN  IF ReadStatus(file) # "ok"
           THEN Fail("add_text_file", ReadStatus(file))
           ELSE Ingest("add_text_file", chunks, "text_file", name, Path)

add_manual_text(chunks, source_name) ==
    /\ CanAdd
    /\ Ingest("add_manual_text", chunks, "manual_text", source_name, None)

-----------------------------------------------------------------------------
(* Index build *)

Index(ds) == [docs |-> ds]

\* Faulty variant: the semantic store is added to, not built anew.
Rebuild_appends(embeds) ==
    IF ~embeds
    THEN /\ persisted' = None
         /\ bm25' = Index(docs)
         /\ ret' = Ret("build_index", "EmbeddingError")
         /\ UNCHANGED <<docs, sources, vectorstore, rr, fresh, nextId,
                        pdf_rag_system, call, ui>>
    ELSE /\ persisted' = Index(docs)
         /\ bm25' = Index(docs)
         /\ vectorstore' = Index((IF vectorstore = None THEN <<>> ELSE vectorstore.docs) \o docs)
         /\ fresh' = TRUE
         /\ ret' = Ret("build_index", "ok")
         /\ UNCHANGED <<docs, sources, rr, nextId, pdf_rag_system, call, ui>>

\* Lines 237-248: the store directory is removed, then the lexical index is
\* built and assigned, then the semantic index is embedded, persisted, assigned.
Rebuild(embeds) ==
    IF ~embeds
    THEN /\ persisted' = None
         /\ bm25' = Index(docs)
         /\ ret' = Ret("build_index", "EmbeddingError")
         /\ UNCHANGED <<docs, sources, vectorstore, rr, fresh, nextId,
                        pdf_rag_system, call, ui>>
    ELSE /\ persisted' = Index(docs)
         /\ bm25' = Index(docs)
         /\ vectorstore' = Index(docs)
         /\ fresh' = TRUE
         /\ ret' = Ret("build_index", "ok")
         /\ UNCHANGED <<docs, sources, rr, nextId, pdf_rag_system, call, ui>>

\* Faulty variant: the store directory is removed before the chunk store is looked at.
build_index_removes_first(embeds) ==
    IF docs = <<>>
    THEN /\ persisted' = None
         /\ ret' = Ret("build_index", "ValueError")
         /\ UNCHANGED <<docs, sources, bm25, vectorstore, rr, fresh, nextId,
                        pdf_rag_system, call, ui>>
    ELSE Rebuild(embeds)

\* Faulty variant: the guard looks at the source list instead of the chunk store.
build_index_checks_sources(embeds) ==
    IF sources = <<>>
    THEN Fail("build_index", "ValueError")
    ELSE Rebuild(embeds)

build_index(embeds) ==
    IF docs = <<>>
    THEN Fail("build_index", "ValueError")
    ELSE Rebuild(embeds)

-----------------------------------------------------------------------------
(* Source removal *)

RemoveIndexes == -1 .. MaxSources

SameSource(doc, type, name) ==
    doc.source_type = type /\ doc.source_name = name

\* sources.pop(i), i a 0-based position of the list
Pop(s, i) == [j \in 1 .. Len(s) - 1 |-> IF j <= i THEN s[j] ELSE s[j + 1]]

\* Lines 275-292, source_index a position of the list.
Remove(source_index, purge) ==
    LET source_to_remove == sources[source_index + 1]
        source_type == source_to_remove.type
        source_name == source_to_remove.name
        keep(doc) == ~(purge /\ SameSource(doc, source_type, source_name))
    IN  /\ docs' = SelectSeq(docs, keep)
        /\ sources' = Pop(sources, source_index)
        /\ bm25' = None
        /\ vectorstore' = None
        /\ fresh' = FALSE
        /\ ret' = Ret("remove_source", "ok")
        /\ UNCHANGED <<persisted, rr, nextId, pdf_rag_system, call, ui>>

\* Faulty variant: no test for a negative index, which Python then counts from the end.
remove_source_negative(source_index) ==
    IF source_index >= Len(sources) \/ source_index < 0 - Len(sources)
    THEN Fail("remove_source", "IndexError")
    ELSE Remove(IF source_index < 0 THEN Len(sources) + source_index ELSE source_index, TRUE)

\* Faulty variant: the source is dropped from the list, its chunks are left behind.
remove_source_keeps_chunks(source_index) ==
    IF source_index < 0 \/ source_index >= Len(sources)
    THEN Fail("remove_source", "IndexError")
    ELSE Remove(source_index, FALSE)

remove_source(source_index) ==
    IF source_index < 0 \/ source_index >= Len(sources)
    THEN Fail("remove_source", "IndexError")
    ELSE Remove(source_index, TRUE)

-----------------------------------------------------------------------------
(* The source list handed out *)

\* "return self.sources.copy()": a new list of the same dict objects, given
\* here with the records as they are now; owner tells which object each is.
get_source_info ==
    /\ ret' = [op |-> "get_source_info", status |-> "ok", value |-> sources]
    /\ UNCHANGED <<docs, sources, bm25, vectorstore, persisted, rr, fresh, nextId,
                   pdf_rag_system, call, ui>>

\* The caller changes the list it was given: info.pop(i).
info_pop(i) ==
    /\ ret.op = "get_source_info"
    /\ i \in 0 .. Len(ret.value) - 1
    /\ ret' = [ret EXCEPT !.value = Pop(ret.value, i)]
    /\ UNCHANGED <<docs, sources, bm25, vectorstore, persisted, rr, fresh, nextId,
                   pdf_rag_system, call, ui>>

\* A dict object under a new name, wherever the list s holds it.
Renamed(s, owner, name) ==
    [j \in 1 .. Len(s) |-> IF s[j].owner = owner THEN [s[j] EXCEPT !.name = name] ELSE s[j]]

\* The caller changes an element of the list it was given: info[i]["name"] =
\* name.  The dict is the one self.sources holds, when it still holds it.
info_rename(i, name) ==
    /\ ret.op = "get_source_info"
    /\ i \in 0 .. Len(ret.value) - 1
    /\ ret.value[i + 1].name # name
    /\ ret' = [ret EXCEPT !.value = Renamed(ret.value, ret.value[i + 1].owner, name)]
    /\ sources' = Renamed(sources, ret.value[i + 1].owner, name)
    /\ UNCHANGED <<docs, bm25, vectorstore, persisted, rr, fresh, nextId,
                   pdf_rag_system, call, ui>>

-----------------------------------------------------------------------------
(* Search *)

Min(a, b) == IF a < b THEN a ELSE b

\* The element of a one-element set; { f(x) : x \in {e} } evaluates e once.
Only(S) == CHOOSE x \in S : TRUE

\* Where a descending stable sort puts each item, gt[i][j] telling whether
\* item i is strictly greater than item j: after the items that are strictly
\* greater and after the earlier items that compare equal to it.
Positions(n, gt) ==
    [i \in 1 .. n |->
        1 + Cardinality({j \in 1 .. n : gt[j][i]})
          + Cardinality({j \in 1 .. i - 1 : ~gt[j][i] /\ ~gt[i][j]})]

Arrange(s, pos) == [p \in 1 .. Len(s) |-> s[CHOOSE i \in 1 .. Len(s) : pos[i] = p]]

\* sorted(..., reverse=True) and the retrievers' ranking: descending, stable.
StableSortDesc(s, gt) ==
    Only({ Arrange(s, pos) : pos \in { Positions(Len(s), m) : m \in {gt} } })

\* The comparison matrix of a list whose item i has the integer score[i].
ByScore(score) ==
    [i \in DOMAIN score |-> [j \in DOMAIN score |-> score[i] > score[j]]]

RECURSIVE CharCount(_, _)
CharCount(t, c) ==
    IF t = <<>> THEN 0
    ELSE (IF Head(t).ch = c THEN Head(t).n ELSE 0) + CharCount(Tail(t), c)

\* Scoring collaborators: functions of the query and the text alone.
Bm25Score(q, text) == CharCount(text, q)

SemanticScore(q, text) == TextLen(text)

CrossScore(q, text) == CharCount(text, q)

Top(s, n) == SubSeq(s, 1, Min(n, Len(s)))

\* self.semantic: the k = 60 most similar documents of the semantic index
SemanticRetrieve(index, q) ==
    LET ds == index.docs
    IN  Top(StableSortDesc(ds,
                ByScore([i \in 1 .. Len(ds) |-> SemanticScore(q, ds[i].page_content)])),
            RetrieverK)

\* self.bm25 with k = 60
Bm25Retrieve(index, q) ==
    LET ds == index.docs
    IN  Top(StableSortDesc(ds,
                ByScore([i \in 1 .. Len(ds) |-> Bm25Score(q, ds[i].page_content)])),
            RetrieverK)

\* The documents of s with the first of every page_content only.
RECURSIVE unique_by_key(_)
unique_by_key(s) ==
    IF s = <<>> THEN <<>>
    ELSE LET init == SubSeq(s, 1, Len(s) - 1)
             last == s[Len(s)]
         IN  IF \E i \in 1 .. Len(init) : init[i].page_content = last.page_content
             THEN unique_by_key(init)
             ELSE Append(unique_by_key(init), last)

\* weight / (rank + c) and the sums of such terms, in fixed point: RrfScale
\* stands for 1.0, a weight is given in halves.
RrfScale == 100000000

\* What one ranked list adds to the score of a text: weight / (rank + c) for
\* every rank at which the list holds a document with this text.
RECURSIVE ListScore(_, _, _, _)
ListScore(list, rank, weight, text) ==
    IF rank > Len(list) THEN 0
    ELSE (IF list[rank].page_content = text
          THEN (weight * RrfScale) \div (rank + RrfC)
          ELSE 0)
         + ListScore(list, rank + 1, weight, text)

\* Weighted reciprocal rank fusion: rrf_score[doc.page_content] += weight / (rank + c)
\* over both lists.
RrfScore(sem, key, w_sem, w_key, text) ==
    ListScore(sem, 1, w_sem, text) + ListScore(key, 1, w_key, text)

EnsembleCandidates(sem, key, w_sem, w_key) ==
    Only({ StableSortDesc(all,
               ByScore([i \in 1 .. Len(all) |->
                           RrfScore(sem, key, w_sem, w_key, all[i].page_content)]))
           : all \in {unique_by_key(sem \o key)} })

\* ensemble.get_relevant_documents(question) on the searcher r
Candidates(r, question, w_sem, w_key) ==
    Only({ EnsembleCandidates(sem, key, w_sem, w_key) :
           sem \in {SemanticRetrieve(r.vectorstore, question)},
           key \in {Bm25Retrieve(r.bm25, question)} })

Reverse(s) == [i \in 1 .. Len(s) |-> s[Len(s) + 1 - i]]

\* Faulty variant: every candidate is returned, k is not applied.
Rerank_untruncated(q, candidates, k) ==
    StableSortDesc(candidates,
        ByScore([i \in 1 .. Len(candidates) |->
                    CrossScore(q, candidates[i].page_content)]))

\* Faulty variant: sorted ascending and then reversed, which turns ties around.
Rerank_ties_reversed(q, candidates, k) ==
    Top(StableSortDesc(Reverse(candidates),
            ByScore([i \in 1 .. Len(candidates) |->
                        CrossScore(q, Reverse(candidates)[i].page_content)])),
        k)

Rerank(q, candidates, k) ==
    Top(StableSortDesc(candidates,
            ByScore([i \in 1 .. Len(candidates) |->
                        CrossScore(q, candidates[i].page_content)])),
        k)

Queries == {"a", "b"}

\* weights in halves: 0.0, 0.5, 1.0
Weights == {<<2, 0>>, <<0, 2>>, <<1, 1>>}

Ks == {1, 2}

CandidateKs == {RetrieverK}

\* MultiSourceReRankingRAG(multi_source_system)
NewReRankingRAG ==
    IF vectorstore = None
    THEN Fail("__init__", "AttributeError")
    ELSE /\ rr' = [vectorstore |-> vectorstore, bm25 |-> bm25]
         /\ ret' = Ret("__init__", "ok")
         /\ UNCHANGED <<docs, sources, bm25, vectorstore, persisted, fresh, nextId,
                        pdf_rag_system, call, ui>>

search(question, k, w_sem, w_key, candidate_k) ==
    /\ rr # None
    /\ \E sem \in {SemanticRetrieve(rr.vectorstore, question)},
          key \in {Bm25Retrieve(rr.bm25, question)} :
          \E candidates \in {EnsembleCandidates(sem, key, w_sem, w_key)} :
              ret' = [op |-> "search", status |-> "ok",
                      value |-> Rerank(question, candidates, k)]
    /\ UNCHANGED <<docs, sources, bm25, vectorstore, persisted, rr, fresh, nextId,
                   pdf_rag_system, ui>>

-----------------------------------------------------------------------------
(* PDFRagSystem: one file at a time, indexed by the import itself *)

\* Two blanks: nothing is left of it once cleaned.
BlankText == <<Run(" ", 2)>>

ImportPdfSplits == PdfSplits \cup {<<Piece(0, BlankText), Piece(1, ShortText)>>}

ImportTextSplits == TextSplits \cup {<<Piece(0, BlankText), Piece(0, ShortText)>>}

\* Values given for min_chunk_length; the constructor takes any integer.
MinChunkLengths == {-1, 120, 121}

OtherPath == [dir |-> "d", base |-> "n2"]

Paths == {Path, OtherPath}

\* Faulty variant: a piece as long as the minimum is kept.
RECURSIVE Cleaned_keeps_equal(_, _, _)
Cleaned_keeps_equal(chunks, idx, min_chunk_length) ==
    IF chunks = <<>> THEN <<>>
    ELSE LET c    == Head(chunks)
             text == clean_text(c.page_content)
             rest == Cleaned_keeps_equal(Tail(chunks), idx + 1, min_chunk_length)
         IN  IF text # <<>> /\ TextLen(text) >= min_chunk_length
             THEN <<[page_content |-> text,
                     page         |-> c.page,
                     chunk_id     |-> ChunkId(c.page, idx)]>> \o rest
             ELSE rest

\* One pass of "for idx, c in enumerate(chunks)": the list cleaned.
RECURSIVE Cleaned(_, _, _)
Cleaned(chunks, idx, min_chunk_length) ==
    IF chunks = <<>> THEN <<>>
    ELSE LET c    == Head(chunks)
             text == clean_text(c.page_content)
             rest == Cleaned(Tail(chunks), idx + 1, min_chunk_length)
         IN  IF text # <<>> /\ TextLen(text) > min_chunk_length
             THEN <<[page_content |-> text,
                     page         |-> c.page,
                     chunk_id     |-> ChunkId(c.page, idx)]>> \o rest
             ELSE rest

\* PDFRagSystem(min_chunk_length=...): the object as __init__ leaves it.
Constructed(min_chunk_length) ==
    [docs             |-> <<>>,
     bm25             |-> None,
     vectorstore      |-> None,
     file_path        |-> None,
     file_type        |-> NoName,
     min_chunk_length |-> min_chunk_length]

PDFRagSystem(min_chunk_length) ==
    /\ pdf_rag_system' = Constructed(min_chunk_length)
    /\ ret' = Ret("PDFRagSystem", "ok")
    /\ UNCHANGED <<docs, sources, bm25, vectorstore, persisted, rr, fresh, nextId,
                   call, ui>>

\* How an import ends: the object and the store directory as the call left
\* them, and "ok" or the exception raised.
Raise(status, self, store) ==
    [self |-> self, persisted |-> store, status |-> status]

\* The tail the two imports share: self.docs = cleaned, the lexical index is
\* built and assigned, the store directory is removed, the semantic index is
\* embedded, persisted and assigned.  An index builder fails when its
\* collaborator does; the lexical one can only fail on an empty list.
Reindex(self, store, cleaned, lexical, embeds) ==
    LET stored  == [self EXCEPT !.docs = cleaned]
        indexed == [stored EXCEPT !.bm25 = Index(cleaned)]
    IN  IF cleaned = <<>> /\ ~lexical
        THEN Raise("ZeroDivisionError", stored, store)
        ELSE IF ~embeds
        THEN Raise("EmbeddingError", indexed, None)
        ELSE Raise("ok", [indexed EXCEPT !.vectorstore = Index(cleaned)], Index(cleaned))

\* import_pdf(pdf_path) on the object self, the store directory holding store.
PdfImport(self, store, loads, chunks, lexical, embeds) ==
    IF ~loads
    THEN Raise("LoaderError", self, store)
    ELSE Reindex(self, store, Cleaned(chunks, 0, self.min_chunk_length), lexical, embeds)

\* import_text_file(text_path) on the object self.
TextImport(self, store, text_path, file, chunks, lexical, embeds) ==
    LET described == [self EXCEPT !.file_path = text_path, !.file_type = "text"]
    IN  IF ReadStatus(file) # "ok"
        THEN Raise(ReadStatus(file), described, store)
        ELSE Reindex(described, store,
                     Cleaned(chunks, 0, self.min_chunk_length), lexical, embeds)

\* The call made on the object in use; call keeps its path and the opens made.
Imported(op, pdf_path, opened, r) ==
    /\ pdf_rag_system' = r.self
    /\ persisted' = r.persisted
    /\ ret' = Ret(op, r.status)
    /\ call' = [path |-> pdf_path, opened |-> opened]
    /\ UNCHANGED <<docs, sources, bm25, vectorstore, rr, fresh, nextId, ui>>

import_pdf(pdf_path, loads, chunks, lexical, embeds) ==
    /\ pdf_rag_system # None
    /\ Imported("import_pdf", pdf_path, <<>>,
                PdfImport(pdf_rag_system, persisted, loads, chunks, lexical, embeds))

import_text_file(text_path, file, chunks, lexical, embeds) ==
    /\ pdf_rag_system # None
    /\ Imported("import_text_file", text_path, Read(file),
                TextImport(pdf_rag_system, persisted, text_path, file, chunks,
                           lexical, embeds))

-----------------------------------------------------------------------------
(* The chat window: RAGTerminalUI and its handlers *)

\* 301 letters: longer than the minimum the window asks for.
LongText == <<Run("a", 301)>>

UiSplits ==
    { <<Piece(0, ShortText)>>,
      <<Piece(0, ShortText), Piece(0, LongText)>> }

\* The text of file_label: "[{file_type}] {filename}".
Label(file_type, filename) == [file_type |-> file_type, filename |-> filename]

\* A call a handler makes, with what it is given.
Effect(f, arg) == [f |-> f, arg |-> arg]

\* RAGIntegration(ui): no system yet, no question being answered.
RAGIntegration == [pdf_rag_system |-> None, worker |-> None]

\* RAGTerminalUI(root): the window as __init__ leaves it, the welcome shown.
RAGTerminalUI ==
    [rag_integration |-> RAGIntegration,
     pdf_rag_system  |-> None,
     file_label      |-> Label(NoName, NoName),
     chat_display    |-> <<"system">>,
     input_field     |-> <<>>]

\* One character put at the end of a text.
AppendChar(t, c) ==
    IF t # <<>> /\ t[Len(t)].ch = c
    THEN [t EXCEPT ![Len(t)].n = @ + 1]
    ELSE Append(t, Run(c, 1))

\* input_field.get("1.0", tk.END): the content and the newline Tk ends it with.
Get(field) == AppendChar(field, "\n")

\* MessageHandler.add_*_message: one message more in the chat display.
Show(u, kind) == [u EXCEPT !.chat_display = Append(@, kind)]

CanShow == Len(ui.chat_display) < MaxMessages

\* A handler returns: the window as it leaves it, the calls it made, the
\* outcome of its try block, its return value, the store directory.
Handled(op, status, value, u, effects, store) ==
    /\ ui' = u
    /\ persisted' = store
    /\ ret' = [op |-> op, status |-> status, value |-> value]
    /\ call' = [effects |-> effects]
    /\ UNCHANGED <<docs, sources, bm25, vectorstore, rr, fresh, nextId, pdf_rag_system>>

\* Lines 90-104 of load_pdf_file, 125-139 of load_text_file: the new object
\* is taken into use and announced, or the exception is shown.
Loaded(u, r, file_type, path) ==
    IF r.status = "ok"
    THEN Show([u EXCEPT !.rag_integration.pdf_rag_system = r.self,
                        !.pdf_rag_system = r.self,
                        !.file_label = Label(file_type, basename(path))],
              "system")
    ELSE Show(u, "error")

load_pdf_file(pdf_path, loads, chunks, lexical, embeds) ==
    /\ ui # None
    /\ CanShow
    /\ \E r \in {PdfImport(Constructed(UiMinChunkLength), persisted,
                           loads, chunks, lexical, embeds)} :
           Handled("load_pdf_file", r.status, <<>>, Loaded(ui, r, "PDF", pdf_path),
                   <<Effect("import_pdf", pdf_path)>>, r.persisted)

load_text_file(text_path, file, chunks, lexical, embeds) ==
    /\ ui # None
    /\ CanShow
    /\ \E r \in {TextImport(Constructed(UiMinChunkLength), persisted,
                            text_path, file, chunks, lexical, embeds)} :
           Handled("load_text_file", r.status, <<>>, Loaded(ui, r, "TXT", text_path),
                   <<Effect("import_text_file", text_path)>>, r.persisted)

\* RAGIntegration.send_message(question): the question is answered on a
\* worker thread, one question at a time and only once a system is loaded.
RAGIntegration_send_message(u, question) ==
    IF u.rag_integration.pdf_rag_system = None \/ u.rag_integration.worker # None
    THEN u
    ELSE [u EXCEPT !.rag_integration.worker = [question |-> question]]

\* The worker thread ends: the answer is shown.
worker_done ==
    /\ ui # None
    /\ ui.rag_integration.worker # None
    /\ CanShow
    /\ ui' = Show([ui EXCEPT !.rag_integration.worker = None], "assistant")
    /\ UNCHANGED <<docs, sources, bm25, vectorstore, persisted, rr, ret, fresh, nextId,
                   pdf_rag_system, call>>

\* Faulty variant: the question is handed on before the field is emptied.
send_message_sends_first(u) ==
    LET user_input == Strip(Get(u.input_field))
    IN  IF user_input = <<>>
        THEN [ui |-> u, effects |-> <<>>]
        ELSE [ui |-> RAGIntegration_send_message(
                         Show([u EXCEPT !.input_field = <<>>], "user"), user_input),
              effects |-> <<Effect("rag_integration.send_message", user_input),
                            Effect("input_field.delete", <<>>),
                            Effect("add_user_message", user_input)>>]

\* EventHandler.send_message on the window u: the window after it and the
\* calls made, in order.
send_message(u) ==
    LET user_input == Strip(Get(u.input_field))
    IN  IF user_input = <<>>
        THEN [ui |-> u, effects |-> <<>>]
        ELSE [ui |-> RAGIntegration_send_message(
                         Show([u EXCEPT !.input_field = <<>>], "user"), user_input),
              effects |-> <<Effect("input_field.delete", <<>>),
                            Effect("add_user_message", user_input),
                            Effect("rag_integration.send_message", user_input)>>]

\* EventHandler.on_enter_key(event), state the modifiers held down.
on_enter_key(u, state) ==
    IF "Shift" \in state
    THEN [ui |-> u, effects |-> <<>>, value |-> <<>>]
    ELSE [ui      |-> send_message(u).ui,
          effects |-> <<Effect("_send_message", <<>>)>> \o send_message(u).effects,
          value   |-> <<"break">>]

\* EventHandler.on_shift_enter(event)
on_shift_enter(u) == [ui |-> u, effects |-> <<>>, value |-> <<>>]

\* The Return key in the input field: Tk runs the binding that names most of
\* the modifiers held, then inserts the newline unless it returned "break".
Return(state) ==
    /\ ui # None
    /\ CanShow
    /\ "Shift" \in state => TextLen(ui.input_field) < MaxInput
    /\ \E h \in {IF "Shift" \in state THEN on_shift_enter(ui) ELSE on_enter_key(ui, state)} :
           Handled(IF "Shift" \in state THEN "on_shift_enter" ELSE "on_enter_key",
                   "ok", h.value,
                   IF h.value = <<"break">> THEN h.ui
                   ELSE [h.ui EXCEPT !.input_field = AppendChar(@, "\n")],
                   h.effects, persisted)

\* The send button.
send_button ==
    /\ ui # None
    /\ CanShow
    /\ Handled("send_message", "ok", <<>>, send_message(ui).ui,
               send_message(ui).effects, persisted)

\* RAGTerminalUI._clear_chat, the clear button.
clear_chat ==
    /\ ui # None
    /\ Handled("_clear_chat", "ok", <<>>, [ui EXCEPT !.chat_display = <<"system">>],
               <<Effect("clear_chat", <<>>), Effect("add_system_message", <<>>)>>,
               persisted)

\* The user types a character at the end of the input field.
type(c) ==
    /\ ui # None
    /\ TextLen(ui.input_field) < MaxInput
    /\ ui' = [ui EXCEPT !.input_field = AppendChar(@, c)]
    /\ UNCHANGED <<docs, sources, bm25, vectorstore, persisted, rr, ret, fresh, nextId,
                   pdf_rag_system, call>>

-----------------------------------------------------------------------------
(* Specification *)

Init ==
    /\ docs = <<>>
    /\ sources = <<>>
    /\ bm25 = None
    /\ vectorstore = None
    /\ persisted = None
    /\ rr = None
    /\ ret = Ret("__init__", "ok")
    /\ fresh = FALSE
    /\ nextId = 0
    /\ pdf_rag_system = None
    /\ call = None
    /\ ui = None

AddPdfAs(n) == \E l \in BOOLEAN, c \in PdfSplits : add_pdf(l, c, n)

AddTextFileAs(n) == \E f \in Files, c \in TextSplits : add_text_file(f, c, n)

AddManualTextAs(n) == \E c \in TextSplits : add_manual_text(c, n)

AddPdf == \E n \in Names \cup {NoName} : AddPdfAs(n)

AddTextFile == \E n \in Names \cup {NoName} : AddTextFileAs(n)

AddManualText == \E n \in Names : AddManualTextAs(n)

BuildIndex == \E e \in BOOLEAN : build_index(e)

RemoveSource == \E i \in RemoveIndexes : remove_source(i)

Search ==
    \E q \in Queries, k \in Ks, w \in Weights, ck \in CandidateKs :
        search(q, k, w[1], w[2], ck) /\ UNCHANGED call

\* The operations of MultiSourceRagSystem.
Next ==
    \/ AddPdf
    \/ AddTextFile
    \/ AddManualText
    \/ BuildIndex
    \/ RemoveSource

Spec == Init /\ [][Next]_vars

\* MultiSourceRagSystem together with a MultiSourceReRankingRAG built on it,
\* every source under the one name basename(Path).
NextSearch ==
    \/ AddPdfAs(NoName)
    \/ AddTextFileAs(NoName)
    \/ AddManualTextAs(basename(Path))
    \/ BuildIndex
    \/ RemoveSource
    \/ NewReRankingRAG
    \/ Search

SpecSearch == Init /\ [][NextSearch]_vars

NewPDFRagSystem == \E m \in MinChunkLengths : PDFRagSystem(m)

ImportPdf ==
    \E l \in BOOLEAN, c \in ImportPdfSplits, x \in BOOLEAN, e \in BOOLEAN :
        import_pdf(Path, l, c, x, e)

ImportTextFile ==
    \E p \in Paths, f \in Files, c \in ImportTextSplits, x \in BOOLEAN, e \in BOOLEAN :
        import_text_file(p, f, c, x, e)

\* A PDFRagSystem, and a MultiSourceRagSystem that is given manual texts.
NextIngest ==
    \/ NewPDFRagSystem
    \/ ImportPdf
    \/ ImportTextFile
    \/ AddManualTextAs(basename(Path))

SpecIngest == Init /\ [][NextIngest]_vars

\* The registry and a caller that keeps the list get_source_info gave it.
GetSourceInfo == get_source_info

InfoPop == \E i \in 0 .. MaxSources - 1 : info_pop(i)

InfoRename == \E i \in 0 .. MaxSources - 1, n \in Names : info_rename(i, n)

NextRegistry ==
    \/ AddManualText
    \/ RemoveSource
    \/ GetSourceInfo
    \/ InfoPop
    \/ InfoRename

SpecRegistry == Init /\ [][NextRegistry]_vars

\* clean_text alone: a text is drawn, cleaned, and the result cleaned again.
Chars == {"a", " ", "\n"}

Runs == { Run(c, n) : c \in Chars, n \in 1 .. MaxRunLength }

Texts ==
    { t \in UNION { [1 .. n -> Runs] : n \in 0 .. MaxRuns } :
        \A i \in 1 .. Len(t) - 1 : t[i].ch # t[i + 1].ch }

Called(text) ==
    /\ call' = [text |-> text]
    /\ ret' = [op |-> "clean_text", status |-> "ok", value |-> clean_text(text)]
    /\ UNCHANGED <<docs, sources, bm25, vectorstore, persisted, rr, fresh, nextId,
                   pdf_rag_system, ui>>

InitClean ==
    \E t \in Texts :
        /\ docs = <<>>
        /\ sources = <<>>
        /\ bm25 = None
        /\ vectorstore = None
        /\ persisted = None
        /\ rr = None
        /\ ret = Ret("__init__", "ok")
        /\ fresh = FALSE
        /\ nextId = 0
        /\ pdf_rag_system = None
        /\ call = [text |-> t]
        /\ ui = None

CleanText == ret.op = "__init__" /\ Called(call.text)

CleanAgain == ret.op = "clean_text" /\ Called(ret.value)

NextClean ==
    \/ CleanText
    \/ CleanAgain

SpecClean == InitClean /\ [][NextClean]_vars

\* The window: files are loaded while one question is typed, sent and answered.
InitUI ==
    /\ docs = <<>>
    /\ sources = <<>>
    /\ bm25 = None
    /\ vectorstore = None
    /\ persisted = None
    /\ rr = None
    /\ ret = Ret("RAGTerminalUI", "ok")
    /\ fresh = FALSE
    /\ nextId = 0
    /\ pdf_rag_system = None
    /\ call = [effects |-> <<>>]
    /\ ui = RAGTerminalUI

LoadPdfFile ==
    \E p \in Paths, l \in BOOLEAN, c \in UiSplits, x \in BOOLEAN, e \in BOOLEAN :
        load_pdf_file(p, l, c, x, e)

LoadTextFile ==
    \E p \in Paths, f \in Files, c \in UiSplits, x \in BOOLEAN, e \in BOOLEAN :
        load_text_file(p, f, c, x, e)

TypeQuestion == ui.input_field = <<>> /\ type("q")

SendButton == send_button

WorkerDone == worker_done

ClearChat == clear_chat

NextLoad ==
    \/ LoadPdfFile
    \/ LoadTextFile
    \/ TypeQuestion
    \/ SendButton
    \/ WorkerDone
    \/ ClearChat

SpecLoad == InitUI /\ [][NextLoad]_vars

\* The window: one PDF is loaded, and the input field is typed into and sent.
LoadOnce ==
    /\ ui.pdf_rag_system = None
    /\ load_pdf_file(Path, TRUE, <<Piece(0, LongText)>>, TRUE, TRUE)

TypedChars == {"q", " "}

Type == \E c \in TypedChars : type(c)

Modifiers == {{}, {"Shift"}, {"Control"}}

ReturnKey == \E state \in Modifiers : Return(state)

NextSend ==
    \/ LoadOnce
    \/ Type
    \/ ReturnKey
    \/ SendButton
    \/ WorkerDone
    \/ ClearChat

SpecSend == InitUI /\ [][NextSend]_vars

\* The searcher alone, over the chunks of one PDF: the manager as one add_pdf
\* leaves it, the splitter's pieces drawn from a pool.
MaxPieces == 3

\* 61 letters a and 61 letters b.
MixedText == <<Run("a", 61), Run("b", 61)>>

\* 121 letters a.
PlainText == <<Run("a", 121)>>

RankPieces == {Piece(0, KeptText), Piece(1, MixedText), Piece(1, PlainText)}

RankSplits ==
    UNION { [1 .. n -> RankPieces] : n \in 1 .. MaxPieces }

\* k = 0 and candidate_k = 1 are passed on as they are.
RankKs == {0, 2}

RankCandidateKs == {1, RetrieverK}

InitRank ==
    \E c \in RankSplits :
        /\ docs = Retained(c, 0, "pdf", basename(Path), 0)
        /\ sources = <<Source("pdf", basename(Path), Path, 0)>>
        /\ bm25 = None
        /\ vectorstore = None
        /\ persisted = None
        /\ rr = None
        /\ ret = Ret("add_pdf", "ok")
        /\ fresh = FALSE
        /\ nextId = 1
        /\ pdf_rag_system = None
        /\ call = None
        /\ ui = None

SearchRank ==
    \E q \in Queries, k \in RankKs, w \in Weights, ck \in RankCandidateKs :
        /\ search(q, k, w[1], w[2], ck)
        /\ call' = [question |-> q, k |-> k, w_sem |-> w[1], w_key |-> w[2],
                    candidate_k |-> ck,
                    candidates |-> Candidates(rr, q, w[1], w[2])]

NextRank ==
    \/ BuildIndex
    \/ NewReRankingRAG
    \/ SearchRank

SpecRank == InitRank /\ [][NextRank]_vars

-----------------------------------------------------------------------------
(* The manager's states *)

AddStep == AddPdf \/ AddTextFile \/ AddManualText

Succeeded == ret.status = "ok"

READY == fresh

NoChunkOf(ds, owner) == \A i \in 1 .. Len(ds) : ds[i].owner # owner

ChunksNotOf(ds, owner) == LET other(d) == d.owner # owner IN SelectSeq(ds, other)

-----------------------------------------------------------------------------
(* Claims *)

\* C1: a search succeeds only when the manager is READY (a build_index
\* succeeded and no add_* or remove_source happened since), and what it returns
\* is computed from indexes built over the current chunk set.
C1_SearchOnlyWhenReady ==
    (ret.op = "search" /\ Succeeded) =>
        /\ READY
        /\ rr.vectorstore = Index(docs)
        /\ rr.bm25 = Index(docs)

\* C2: in READY, every add_* call that changes the chunk set leaves both
\* indexes marked invalid, and no add_* or remove_source call makes an invalid
\* index valid again.
C2_AddInvalidatesIndexes ==
    [][ /\ (READY /\ AddStep /\ docs' # docs) => (bm25' = None /\ vectorstore' = None)
        /\ (bm25 = None /\ vectorstore = None /\ (AddStep \/ RemoveSource)) =>
               (bm25' = None /\ vectorstore' = None) ]_vars

\* C3: a successful remove_source(i) purges the removed source's chunks in
\* the same call, clears both indexes together and leaves the manager not
\* READY; a search issued after it and before the next build_index fails.
C3_RemoveThenSearchFails ==
    [][ /\ \A i \in 0 .. MaxSources - 1 :
              (i < Len(sources) /\ remove_source(i)) =>
                  /\ NoChunkOf(docs', sources[i + 1].owner)
                  /\ bm25' = None /\ vectorstore' = None
                  /\ ~READY'
        /\ (vectorstore = None /\ Search) => ret'.status # "ok" ]_vars

\* C4: build_index on an empty chunk store fails with the empty-corpus error
\* (ValueError) and changes neither the chunk store, the source list, the
\* indexes nor the persisted store.
C4_EmptyBuildFails ==
    [][ (docs = <<>> /\ BuildIndex) =>
            /\ ret'.status = "ValueError"
            /\ UNCHANGED <<docs, sources, bm25, vectorstore, persisted, fresh>> ]_vars

\* C4 witness: the only source was removed after a build, and build_index failed.
C4_Witness ==
    /\ ret.op = "build_index" /\ ret.status = "ValueError"
    /\ sources = <<>> /\ persisted # None /\ nextId = 1

\* Only add_* calls have changed the manager so far, at least one of them: no
\* source registered was removed, no index and no store was ever written.
OnlyAdds ==
    /\ nextId >= 1 /\ Len(sources) = nextId
    /\ bm25 = None /\ vectorstore = None /\ persisted = None

\* C5 as stated: after one or more add_* calls from EMPTY, build_index
\* succeeds and moves the manager to READY whatever the input texts were.
C5_BuildAfterAddSucceeds ==
    [][ (OnlyAdds /\ build_index(TRUE)) => (ret'.status = "ok" /\ READY') ]_vars

\* C5 amended: after one or more add_* calls from EMPTY, build_index (the
\* embedding collaborator working) succeeds and moves the manager to READY
\* exactly when some chunk was retained; when every chunk was discarded by the
\* minimum-length filter it fails with ValueError and changes nothing.
C5_BuildAfterAddNeedsChunks ==
    [][ (OnlyAdds /\ build_index(TRUE)) =>
            IF docs # <<>>
            THEN /\ ret'.status = "ok" /\ READY'
                 /\ bm25' = Index(docs) /\ vectorstore' = Index(docs)
                 /\ UNCHANGED <<docs, sources>>
            ELSE /\ ret'.status = "ValueError" /\ ~READY'
                 /\ UNCHANGED <<docs, sources, bm25, vectorstore, persisted>> ]_vars

\* C5 witness: sources were added, all their chunks discarded, build_index failed.
C5_Witness ==
    /\ ret.op = "build_index" /\ ret.status = "ValueError"
    /\ OnlyAdds /\ docs = <<>>

\* C6: a build_index call either succeeds and moves the manager to READY, or
\* leaves the lexical index, the semantic index, the persisted store and the
\* manager state as they were.
C6_BuildAtomic ==
    [][ BuildIndex =>
            \/ ret'.status = "ok" /\ READY'
            \/ UNCHANGED <<bm25, vectorstore, persisted, fresh>> ]_vars

\* C7: whenever both indexes are built they were built from the same chunk set.
C7_IndexesAgree ==
    (bm25 # None /\ vectorstore # None) => bm25.docs = vectorstore.docs

\* C8: remove_source(i) with i < 0 or i >= len(sources) fails with IndexError
\* and leaves the source list, the chunk store and both indexes unchanged.
C8_RemoveOutOfRange ==
    [][ \A i \in RemoveIndexes :
            ((i < 0 \/ i >= Len(sources)) /\ remove_source(i)) =>
                /\ ret'.status = "IndexError"
                /\ UNCHANGED <<sources, docs, bm25, vectorstore>> ]_vars

\* C8 witness: a removal was refused while sources, chunks and indexes exist.
C8_Witness ==
    /\ ret.op = "remove_source" /\ ret.status = "IndexError"
    /\ sources # <<>> /\ docs # <<>> /\ vectorstore # None

\* C9: remove_source(i) leaves no chunk of the removed source and exactly the
\* chunks of the other sources, in order; build_index leaves the chunk store
\* as it is.
C9_RemoveOnlyOwnChunks ==
    [][ /\ \A i \in 0 .. MaxSources - 1 :
              (i < Len(sources) /\ remove_source(i)) =>
                  docs' = ChunksNotOf(docs, sources[i + 1].owner)
        /\ BuildIndex => docs' = docs ]_vars

\* C10: every chunk in the chunk store references a registered source.
C10_NoOrphanChunks ==
    \A i \in 1 .. Len(docs) :
        \E j \in 1 .. Len(sources) :
            /\ sources[j].type = docs[i].source_type
            /\ sources[j].name = docs[i].source_name
            /\ sources[j].owner = docs[i].owner

\* C10 witness: a source was removed and chunks of another source remain.
C10_Witness ==
    /\ ret.op = "remove_source" /\ Succeeded
    /\ docs # <<>>

\* C11: no two chunks of the chunk store have the same chunk id, whatever
\* sources were ingested.
C11_ChunkIdsUnique ==
    \A i, j \in 1 .. Len(docs) :
        i # j => docs[i].chunk_id # docs[j].chunk_id

\* C12: the sequence index in the ids of the chunks one add_* call retains
\* counts the retained chunks only: 0, 1, ..., n-1 in order, without gaps.
C12_IndexAmongRetained ==
    [][ AddStep =>
            \A i \in 1 .. Len(docs') - Len(docs) :
                docs'[Len(docs) + i].chunk_id[3] = i - 1 ]_vars

-----------------------------------------------------------------------------
(* Claims on search, fusion and reranking *)

\* The last call was a search that returned; call holds its arguments.
SearchDone == ret.op = "search" /\ Succeeded

Count(s, d) == Cardinality({i \in DOMAIN s : s[i] = d})

\* Position of the first d in s.
IndexIn(s, d) == CHOOSE i \in DOMAIN s : s[i] = d /\ \A j \in 1 .. i - 1 : s[j] # d

\* A searcher built on the indexes (v, b).
Searcher(v, b) == [vectorstore |-> v, bm25 |-> b]

\* C14: build_index called again with no add_* or remove_source since the
\* last successful build leaves the lexical and the semantic index with the same
\* contents, so every search (same query, weights, k) returns the same ordered
\* result on the indexes of the first and of the second build.
C14_RebuildIdempotent ==
    [][ (READY /\ build_index(TRUE)) =>
            /\ ret'.status = "ok"
            /\ bm25' = bm25
            /\ vectorstore' = vectorstore
            /\ \A q \in Queries, w \in Weights :
                   \E first \in {Candidates(Searcher(vectorstore, bm25), q, w[1], w[2])},
                      second \in {Candidates(Searcher(vectorstore', bm25'), q, w[1], w[2])} :
                       \A k \in Ks : Rerank(q, second, k) = Rerank(q, first, k) ]_vars

\* C14 witness: a search was answered from an earlier build, and build_index
\* has succeeded again on the same chunk store.
C14_Witness ==
    /\ ret.op = "build_index" /\ Succeeded
    /\ call # None
    /\ rr # None /\ rr.vectorstore = vectorstore /\ rr.bm25 = bm25

\* C15: for k >= 1 the reranker returns exactly min(k, len(candidates))
\* chunks, each one of the candidates with text and metadata as they were, none
\* more often than among the candidates.
C15_RerankReturnsTopK ==
    (SearchDone /\ call.k >= 1) =>
        /\ Len(ret.value) = Min(call.k, Len(call.candidates))
        /\ \A i \in DOMAIN ret.value :
               /\ Count(call.candidates, ret.value[i]) >= 1
               /\ Count(ret.value, ret.value[i]) <= Count(call.candidates, ret.value[i])

\* C15 witness: three candidates, k = 2, two chunks returned.
C15_Witness ==
    /\ SearchDone
    /\ call.k = 2 /\ Len(call.candidates) = 3 /\ Len(ret.value) = 2

\* C16: the reranked output is in descending order of the pairwise score, a
\* chunk left out never scoring above one returned, and chunks of equal score
\* keep the order they had in the fused candidate list.
C16_RerankStableDescending ==
    SearchDone =>
        LET v == ret.value
            c == call.candidates
            score(d) == CrossScore(call.question, d.page_content)
            ahead(d, e) ==
                \/ score(d) > score(e)
                \/ score(d) = score(e) /\ IndexIn(c, d) < IndexIn(c, e)
        IN  /\ \A i, j \in DOMAIN v : i < j => ahead(v[i], v[j])
            /\ \A i \in DOMAIN c :
                   Count(v, c[i]) = 0 => \A j \in DOMAIN v : ahead(v[j], c[i])

\* C16 witness: two chunks of equal score were returned.
C16_Witness ==
    /\ SearchDone
    /\ Len(ret.value) = 2
    /\ ret.value[1] # ret.value[2]
    /\ CrossScore(call.question, ret.value[1].page_content)
           = CrossScore(call.question, ret.value[2].page_content)

\* C17: a search with candidate_k >= 1 takes at most candidate_k candidates
\* from each index, and the fused candidate list holds at most 2 * candidate_k.
C17_CandidatesBounded ==
    (SearchDone /\ call.candidate_k >= 1) =>
        /\ Len(SemanticRetrieve(rr.vectorstore, call.question)) <= call.candidate_k
        /\ Len(Bm25Retrieve(rr.bm25, call.question)) <= call.candidate_k
        /\ Len(call.candidates) <= 2 * call.candidate_k

\* The chunks of fused that list holds come in list's order, and every text
\* of list is among them.
SameOrder(fused, list) ==
    LET among(d) == Count(list, d) >= 1
        r == SelectSeq(fused, among)
    IN  /\ \A i, j \in DOMAIN r : i < j => IndexIn(list, r[i]) < IndexIn(list, r[j])
        /\ \A i \in DOMAIN list :
               \E j \in DOMAIN r : r[j].page_content = list[i].page_content

\* C18: with w_sem = 1, w_key = 0 the fused order restricted to the chunks the
\* semantic index returned is the semantic index's order; with w_sem = 0,
\* w_key = 1 the same holds for the lexical index.
C18_ExtremeWeightsFollowOneIndex ==
    SearchDone =>
        /\ (call.w_sem = 2 /\ call.w_key = 0) =>
               SameOrder(call.candidates, SemanticRetrieve(rr.vectorstore, call.question))
        /\ (call.w_sem = 0 /\ call.w_key = 2) =>
               SameOrder(call.candidates, Bm25Retrieve(rr.bm25, call.question))

\* C19: configuration values are validated at the call that receives them:
\* no search is answered with k < 1, candidate_k < 1 or a weight outside [0, 1],
\* and no PDFRagSystem exists with a negative min_chunk_length.
C19_ConfigurationValidated ==
    /\ SearchDone =>
           /\ call.k >= 1
           /\ call.candidate_k >= 1
           /\ call.w_sem \in 0 .. 2
           /\ call.w_key \in 0 .. 2
    /\ pdf_rag_system # None => pdf_rag_system.min_chunk_length >= 0

\* C20: an ingestion call that fails leaves all visible state as it was before
\* the call: chunk store, source list, recorded file path and type, both
\* indexes and the persisted store.
C20_FailedIngestChangesNothing ==
    [][ ( /\ ret'.op \in {"import_pdf", "import_text_file", "add_manual_text"}
          /\ ret'.status # "ok" ) =>
            UNCHANGED <<docs, sources, bm25, vectorstore, pdf_rag_system, persisted>> ]_vars


-----------------------------------------------------------------------------
(* Claims on reading, the registry and re-ingestion *)

\* C21: import_text_file opens the file as UTF-8 first; it opens it as
\* Shift_JIS, once and last, exactly when the first open ended with a decode
\* error, not when it ended with another error; when the last open made fails
\* the call raises that error and the object's chunks and indexes stay as
\* they were.
C21_EncodingChain ==
    [][ ret'.op = "import_text_file" =>
          LET opened == call'.opened
          IN  /\ Len(opened) \in {1, 2}
              /\ opened[1].encoding = "utf-8"
              /\ (Len(opened) = 2) <=> (opened[1].outcome = "UnicodeDecodeError")
              /\ Len(opened) = 2 => opened[2].encoding = "shift_jis"
              /\ opened[Len(opened)].outcome # "ok" =>
                    /\ ret'.status = opened[Len(opened)].outcome
                    /\ pdf_rag_system'.docs = pdf_rag_system.docs
                    /\ pdf_rag_system'.bm25 = pdf_rag_system.bm25
                    /\ pdf_rag_system'.vectorstore = pdf_rag_system.vectorstore
                    /\ persisted' = persisted ]_vars

\* Both encodings failed on a file that could be opened.
C21_Witness ==
    /\ ret.op = "import_text_file"
    /\ ret.status = "UnicodeDecodeError"
    /\ Len(call.opened) = 2
    /\ call.opened[2].encoding = "shift_jis"

MutationOps == {"add_pdf", "add_text_file", "add_manual_text", "remove_source"}

\* C23: an add_* or remove_source call builds no index: each index is left as
\* it was or cleared, the persisted store is left alone, and when the call
\* changed the chunk store no index over the changed store exists after it.
C23_MutationsBuildNoIndex ==
    [][ ret'.op \in MutationOps =>
          /\ bm25' \in {bm25, None}
          /\ vectorstore' \in {vectorstore, None}
          /\ persisted' = persisted
          /\ docs' # docs => (bm25' # Index(docs') /\ vectorstore' # Index(docs')) ]_vars

\* An add_* call has extended the chunk store and the indexes built before it
\* are still in place, over the older store.
C23_Witness ==
    /\ ret.op \in {"add_pdf", "add_text_file", "add_manual_text"}
    /\ Succeeded
    /\ bm25 # None /\ vectorstore # None
    /\ bm25 # Index(docs) /\ vectorstore # Index(docs)

\* C25 as stated: a source is addressed by its position in the list (the
\* source_index of remove_source); no add_* or remove_source call changes the
\* position of a source that is registered before and after it, so positions
\* follow the order of registration.
C25_SourceIdStable ==
    [][ ret'.op \in MutationOps =>
          \A i \in 1 .. Len(sources), j \in 1 .. Len(sources') :
              sources[i].owner = sources'[j].owner => i = j ]_vars

\* C26 as stated: when an add_* call registers a source of the kind and name
\* of a source registered before, the chunk store holds no chunk of the
\* earlier ingestion after it.
C26_ReingestionReplaces ==
    [][ (ret'.op \in MutationOps /\ Len(sources') > Len(sources)) =>
          \A i \in 1 .. Len(sources) :
              (/\ sources[i].type = sources'[Len(sources')].type
               /\ sources[i].name = sources'[Len(sources')].name)
                  => NoChunkOf(docs', sources[i].owner) ]_vars

\* C24 as stated: a successful add_* call appends exactly one source to the
\* end of the list and leaves the sources before it as they were;
\* get_source_info returns the sources in the order of the list; and no change
\* the caller makes to the value it was given changes the list.
C24_RegistrySnapshot ==
    [][ /\ (ret'.op = "add_manual_text" /\ ret'.status = "ok") =>
              /\ Len(sources') = Len(sources) + 1
              /\ SubSeq(sources', 1, Len(sources)) = sources
        /\ GetSourceInfo => ret'.value = sources
        /\ (InfoPop \/ InfoRename) =>
              sources' = sources ]_vars

-----------------------------------------------------------------------------
(* Claims on the normalizer *)

\* The characters of t that are no whitespace at either end: positions of the
\* first and the last run that is not whitespace.
Inner(t) == { i \in 1 .. Len(t) : ~IsSpace(t[i].ch) }

\* C27: clean_text changes nothing but its result; the result is the text
\* between the first and the last run that is not whitespace, each run of
\* three or more newlines in it cut to two; it holds no run of three or more
\* newlines and no whitespace at either end; the empty text gives the empty
\* text; and cleaning the result again gives the result.
C27_NormalizerIdempotent ==
    (ret.op = "clean_text") =>
        \E in \in {call.text}, out \in {ret.value} :
            /\ \A i \in 1 .. Len(out) : out[i].ch = "\n" => out[i].n <= 2
            /\ \A i \in 1 .. Len(out) - 1 : out[i].ch # out[i + 1].ch
            /\ out # <<>> => (~IsSpace(out[1].ch) /\ ~IsSpace(out[Len(out)].ch))
            /\ in = <<>> => out = <<>>
            /\ clean_text(out) = out
            /\ IF Inner(in) = {} THEN out = <<>>
               ELSE \E lo \in Inner(in), hi \in Inner(in) :
                      /\ \A i \in Inner(in) : lo <= i /\ i <= hi
                      /\ Len(out) = hi - lo + 1
                      /\ \A j \in 1 .. Len(out) :
                            out[j] = IF in[lo + j - 1].ch = "\n" /\ in[lo + j - 1].n >= 3
                                     THEN Run("\n", 2)
                                     ELSE in[lo + j - 1]
            /\ docs = <<>> /\ sources = <<>> /\ pdf_rag_system = None

\* A text with whitespace in front and a run of four newlines inside has been
\* cleaned.
C27_Witness ==
    /\ ret.op = "clean_text"
    /\ call.text = <<Run(" ", 1), Run("a", 1), Run("\n", 4), Run("a", 2)>>
    /\ ret.value = <<Run("a", 1), Run("\n", 2), Run("a", 2)>>

-----------------------------------------------------------------------------
(* Claims on the single-file loader and the window *)

\* C28 as stated: after every successful import_pdf or import_text_file the
\* chunk list, the lexical index and the semantic index of the object hold
\* the same chunks, those of this import, and file_path and file_type
\* describe the file of this import.
C28_ImportDescribesFile ==
    [][ (ret'.op \in {"import_pdf", "import_text_file"} /\ ret'.status = "ok") =>
          /\ pdf_rag_system'.bm25 = Index(pdf_rag_system'.docs)
          /\ pdf_rag_system'.vectorstore = Index(pdf_rag_system'.docs)
          /\ persisted' = Index(pdf_rag_system'.docs)
          /\ pdf_rag_system'.file_path = call'.path
          /\ pdf_rag_system'.file_type = (IF ret'.op = "import_pdf" THEN "pdf" ELSE "text") ]_vars

LoadStep == LoadPdfFile \/ LoadTextFile

\* C22 as stated: no load starts while a question is being answered on the
\* worker thread.
C22_NoLoadDuringQuery ==
    [][ LoadStep => ui.rag_integration.worker = None ]_vars

\* C29 as stated: a load that fails shows one error message and nothing else,
\* and leaves the system in use, the file label and, when a system is in use,
\* the store directory as they were; after any load the window and the RAG
\* integration refer to the same system.
C29_FailedLoadKeepsSystem ==
    [][ LoadStep =>
          /\ ui'.pdf_rag_system = ui'.rag_integration.pdf_rag_system
          /\ ret'.status # "ok" =>
                /\ ui'.chat_display = Append(ui.chat_display, "error")
                /\ ui'.pdf_rag_system = ui.pdf_rag_system
                /\ ui'.rag_integration = ui.rag_integration
                /\ ui'.file_label = ui.file_label
                /\ ui.pdf_rag_system # None => persisted' = persisted ]_vars

\* What send_message does with the question it reads from the field.
SendEffects(question) ==
    IF question = <<>> THEN <<>>
    ELSE <<Effect("input_field.delete", <<>>),
           Effect("add_user_message", question),
           Effect("rag_integration.send_message", question)>>

\* The field is emptied and the user message shown next in the chat display.
SentFrom(before, after) ==
    /\ after.input_field = <<>>
    /\ Len(after.chat_display) > Len(before.chat_display)
    /\ SubSeq(after.chat_display, 1, Len(before.chat_display) + 1)
           = Append(before.chat_display, "user")

\* C30: send_message, when the field holds nothing but whitespace, makes no
\* call and leaves the window as it is; otherwise it empties the field, shows
\* the user message and hands the trimmed question to the RAG integration,
\* once each and in this order.  Return without Shift calls send_message once
\* and no newline is inserted; Return with Shift makes no call and the
\* newline is inserted.
C30_SendOnceInOrder ==
    [][ \E question \in {Strip(Get(ui.input_field))} :
          /\ SendButton =>
                /\ call'.effects = SendEffects(question)
                /\ IF question = <<>> THEN ui' = ui ELSE SentFrom(ui, ui')
          /\ \A state \in Modifiers :
                Return(state) =>
                    IF "Shift" \in state
                    THEN /\ call'.effects = <<>>
                         /\ ui' = [ui EXCEPT !.input_field = AppendChar(@, "\n")]
                    ELSE /\ call'.effects
                               = <<Effect("_send_message", <<>>)>> \o SendEffects(question)
                         /\ ret'.value = <<"break">>
                         /\ IF question = <<>> THEN ui' = ui ELSE SentFrom(ui, ui') ]_vars

\* Return was pressed on a field holding a question of two lines, and the
\* question is being answered.
C30_Witness ==
    /\ ret.op = "on_enter_key"
    /\ Len(call.effects) = 4
    /\ call.effects[4] = Effect("rag_integration.send_message",
                                <<Run("q", 1), Run("\n", 1), Run("q", 1)>>)
    /\ ui.input_field = <<>>
    /\ ui.rag_integration.worker # None

=============================================================================
